---- MODULE Spec2Model ----
(***************************************************************************)
(* Model of pgevdb's src/main.rs: one run of main() is a straight line of  *)
(* awaited steps, each of which either succeeds or returns an error that   *)
(* `?` propagates out of main.  The files of the installation tree, the    *)
(* scratch directory and the contents of the data directory outlive a run, *)
(* so the model lets main() run several times on the same directories.     *)
(***************************************************************************)
EXTENDS Naturals, Sequences, FiniteSets

VARIABLES
    pc,         \* position of the current run in main()
    runs,       \* number of runs of the program started so far
    archive,    \* the entries of the zip served at the fixed URL
    scratch,    \* entries of the directory "vectors" in the working directory
    scratchDir, \* TRUE while the directory "vectors" exists
    pending,    \* entries read_dir("vectors") has still to yield
    tree,       \* files below <install_dir>/<PG_VERSION>
    db,         \* what the data directory persists
    server,     \* the server process of the current run
    pool,       \* the value of main's variable `pool`
    conn,       \* the value of main's variable `conn`
    openPools,  \* ids of the pools that are open
    installed,  \* what is_pg_vectors_extension_installed returned in this run
    trace,      \* the steps the current run has executed, in order
    libRun,     \* the run in which lib/vectors.so was first copied completely (0: none)
    treeBefore, \* the installation tree when install_pg_vectors_extension was entered
    rowsBefore  \* the rows of table items when the current run started

vars == <<pc, runs, archive, scratch, scratchDir, pending, tree, db, server,
          pool, conn, openPools, installed, trace, libRun, treeBefore, rowsBefore>>

\* How many times the program is run on the same directories.
MaxRuns == 3

----------------------------------------------------------------------------
(* Files and archives *)

File(name) == [dir |-> "", name |-> name, kind |-> "file"]
Dir(name) == [dir |-> "", name |-> name, kind |-> "dir"]
Nested(dir, name) == [dir |-> dir, name |-> name, kind |-> "file"]

\* The layout of the release archive: everything at the top level.
ReleaseArchive ==
    { File("vectors.so"), File("vectors.control"),
      File("vectors--0.3.0.sql"), File("vectors--0.2.1--0.3.0.sql") }

\* An archive with a directory whose name has the prefix, and a prefixed
\* file below a subdirectory.
NestedArchive ==
    { File("vectors.so"), File("vectors.control"), File("vectors--0.3.0.sql"),
      Dir("vectors--docs"), Dir("sql"), Nested("sql", "vectors--0.1.0.sql") }

\* Archives of an unexpected layout: a file the installer copies by name is missing.
NoControlArchive == { File("vectors.so"), File("vectors--0.3.0.sql") }
NoLibraryArchive == { File("vectors.control"), File("vectors--0.3.0.sql") }

Archives == { ReleaseArchive, NestedArchive, NoControlArchive, NoLibraryArchive }

\* path.file_name().starts_with("vectors--")
StartsWithPrefix(name) ==
    name \in { "vectors--0.3.0.sql", "vectors--0.2.1--0.3.0.sql",
               "vectors--0.1.0.sql", "vectors--docs" }

TreeFile(dir, name, state) == [dir |-> dir, name |-> name, state |-> state]

\* What postgresql.setup() unpacks: the server's own files.
ServerFiles ==
    { TreeFile("lib", "plpgsql.so", "full"),
      TreeFile("ext", "plpgsql.control", "full") }

Has(t, dir, name) == \E f \in t : f.dir = dir /\ f.name = name
HasFull(t, dir, name) == TreeFile(dir, name, "full") \in t
Without(t, dir, name) == { f \in t : ~(f.dir = dir /\ f.name = name) }

----------------------------------------------------------------------------
(* Handles *)

NoHandle == [kind |-> "none", id |-> 0, gen |-> 0]
PoolHandle(id, gen) == [kind |-> "pool", id |-> id, gen |-> gen]
ConnHandle(id, gen) == [kind |-> "conn", id |-> id, gen |-> gen]

ServerDown == [up |-> FALSE, gen |-> 0, preload |-> FALSE, path |-> FALSE]

FreshDb ==
    [exists |-> FALSE, preload |-> FALSE, path |-> FALSE, ext |-> FALSE,
     table |-> FALSE, a |-> 0, b |-> 0]

\* One executed step: its name, its error ("none" on success), the server
\* instance it ran against and the handle it used.
Rec(step, err, h) ==
    [step |-> step, err |-> err, up |-> server.up, gen |-> server.gen,
     via |-> h.kind, id |-> h.id, hgen |-> h.gen]

Init ==
    /\ pc = "idle"
    /\ runs = 0
    /\ archive \in Archives
    /\ scratch = {}
    /\ scratchDir = FALSE
    /\ pending = {}
    /\ tree = {}
    /\ db = FreshDb
    /\ server = ServerDown
    /\ pool = NoHandle
    /\ conn = NoHandle
    /\ openPools = {}
    /\ installed = "unknown"
    /\ trace = <<>>
    /\ libRun = 0
    /\ treeBefore = {}
    /\ rowsBefore = [a |-> 0, b |-> 0]

----------------------------------------------------------------------------
(* Helpers shared by the steps *)

\* Mutant: an error is dropped and main goes on.
GotoIgnoringError(err, next) == next

\* `expr?`: on an error main returns it, otherwise it goes on.
Goto(err, next) == IF err = "none" THEN next ELSE "failed"

\* Executing the step `name` with result `err` on handle `h`.
Step(name, err, h, next) ==
    /\ pc' = Goto(err, next)
    /\ trace' = Append(trace, Rec(name, err, h))

\* The results of an operation on the outside world: it can always fail on
\* its own (network, disk, process), and fails with `why` when `possible` is false.
Results(possible, why) == IF possible THEN {"none", "fault"} ELSE {why}

\* A handle reaches the server when the server runs and is the instance
\* the handle's socket was opened to; a pool also has to be open.
Usable(h) ==
    /\ h.kind # "none"
    /\ server.up
    /\ h.gen = server.gen
    /\ h.kind = "pool" => h.id \in openPools

\* The results of one SQL statement on handle `h`.
SqlResults(h, accepted) ==
    IF Usable(h) THEN Results(accepted, "SqlError") ELSE {"ConnectionError"}

\* What a statement leaves behind: its effect when it succeeded, nothing
\* when the server refused it; when the call failed on its own the server
\* may or may not have carried it out before the reply was lost.
Effect(err, old, new) ==
    IF err = "none" THEN {new} ELSE IF err = "fault" THEN {old, new} ELSE {old}

\* The server cannot start when it has to preload a library it cannot load.
CanStart == db.preload => HasFull(tree, "lib", "vectors.so")

\* postgresql.start(): a new server instance, which reads the persisted
\* configuration once, when it starts.
Started ==
    [up |-> TRUE, gen |-> server.gen + 1, preload |-> db.preload, path |-> db.path]

\* The type `vector` resolves once the extension is created and the schema
\* `vectors` is on the search path of the running instance.
TypeVisible == db.ext /\ server.path

\* std::fs::copy(from, to): the destination holds all of the source on
\* success; a failed copy leaves the destination as it was, or created and
\* incomplete.  A source that does not exist fails before the destination
\* is touched.
CopyResults(name) == Results(File(name) \in scratch /\ scratchDir, "NotFound")
Copied(t, dir, name) == Without(t, dir, name) \cup {TreeFile(dir, name, "full")}
\* Mutant: a failed copy puts the tree back as it was before the installation.
CopyFailedRollback(t, dir, name, err) == {treeBefore}
CopyFailed(t, dir, name, err) ==
    IF err = "NotFound" THEN {t}
    ELSE {t, Without(t, dir, name) \cup {TreeFile(dir, name, "partial")}}
CopyInto(t, dir, name, err) ==
    IF err = "none" THEN {Copied(t, dir, name)} ELSE CopyFailed(t, dir, name, err)

----------------------------------------------------------------------------
(* main, lines 20-56: the server, the database and the pool *)

\* The program is started (again) on the same directories.  The previous
\* process is gone: its handles are dropped and its server is stopped.
NewRun ==
    /\ pc \in {"idle", "done", "failed"}
    /\ runs < MaxRuns
    /\ runs' = runs + 1
    /\ pc' = "setup"
    /\ server' = ServerDown
    /\ pool' = NoHandle
    /\ conn' = NoHandle
    /\ openPools' = {}
    /\ installed' = "unknown"
    /\ trace' = <<>>
    /\ pending' = {}
    /\ treeBefore' = {}
    /\ rowsBefore' = [a |-> db.a, b |-> db.b]
    /\ UNCHANGED <<archive, scratch, scratchDir, tree, db, libRun>>

\* postgresql.setup().await?
Setup ==
    /\ pc = "setup"
    /\ \E err \in Results(TRUE, "none") :
        /\ Step("setup", err, NoHandle, "start")
        /\ tree' = IF err = "none" THEN tree \cup ServerFiles ELSE tree
    /\ UNCHANGED <<runs, archive, scratch, scratchDir, pending, db, server,
                   pool, conn, openPools, installed, libRun, treeBefore, rowsBefore>>

\* postgresql.start().await?  (line 47)
Start ==
    /\ pc = "start"
    /\ \E err \in Results(CanStart, "StartupError") :
        /\ Step("start", err, NoHandle, "db_exists")
        /\ server' = IF err = "none" THEN Started ELSE server
    /\ UNCHANGED <<runs, archive, scratch, scratchDir, pending, tree, db,
                   pool, conn, openPools, installed, libRun, treeBefore, rowsBefore>>

\* Mutant: the database is created whatever the check said.
AfterDatabaseExistsAlwaysCreate(exists) == "create_db"

\* if !postgresql.database_exists(DATABASE_NAME).await? { create }
AfterDatabaseExists(exists) == IF ~exists THEN "create_db" ELSE "connect"

DatabaseExists ==
    /\ pc = "db_exists"
    /\ \E err \in Results(server.up, "ConnectionError") :
        Step("db_exists", err, NoHandle, AfterDatabaseExists(db.exists))
    /\ UNCHANGED <<runs, archive, scratch, scratchDir, pending, tree, db, server,
                   pool, conn, openPools, installed, libRun, treeBefore, rowsBefore>>

\* postgresql.create_database(DATABASE_NAME).await?
CreateDatabase ==
    /\ pc = "create_db"
    /\ \E err \in (IF db.exists THEN {"AlreadyExists"}
                   ELSE Results(server.up, "ConnectionError")) :
        /\ Step("create_db", err, NoHandle, "connect")
        /\ db' \in Effect(err, db, [db EXCEPT !.exists = TRUE])
    /\ UNCHANGED <<runs, archive, scratch, scratchDir, pending, tree, server,
                   pool, conn, openPools, installed, libRun, treeBefore, rowsBefore>>

\* PgPool::connect(url): a new pool, open, with sockets to the running instance.
Connected(id) == PoolHandle(id, server.gen)

\* let mut pool = PgPool::connect(database_url.as_str()).await?  (line 55)
Connect ==
    /\ pc = "connect"
    /\ \E err \in Results(server.up /\ db.exists, "ConnectionError") :
        /\ Step("connect", err, NoHandle, "check")
        /\ pool' = IF err = "none" THEN Connected(1) ELSE pool
        /\ openPools' = IF err = "none" THEN openPools \cup {1} ELSE openPools
    /\ UNCHANGED <<runs, archive, scratch, scratchDir, pending, tree, db, server,
                   conn, installed, libRun, treeBefore, rowsBefore>>

----------------------------------------------------------------------------
(* main, lines 57-74: the installed check and the installation branch *)

\* Mutant: the check also asks for the control file.
InstalledWithControl(t) ==
    Has(t, "lib", "vectors.so") /\ Has(t, "ext", "vectors.control")

\* install_dir.join(PG_VERSION).join("lib").join("vectors.so").exists()
is_pg_vectors_extension_installed(t) == Has(t, "lib", "vectors.so")

\* Mutant: the installation branch is taken whatever the check said.
AfterCheckAlwaysInstall(isInstalled) == "acquire"

\* if !is_pg_vectors_extension_installed(..).await? { install .. enable }
AfterCheck(isInstalled) == IF ~isInstalled THEN "acquire" ELSE "create_table"

Check ==
    /\ pc = "check"
    /\ Step("check", "none", NoHandle,
            AfterCheck(is_pg_vectors_extension_installed(tree)))
    /\ installed' = IF is_pg_vectors_extension_installed(tree) THEN "yes" ELSE "no"
    /\ UNCHANGED <<runs, archive, scratch, scratchDir, pending, tree, db, server,
                   pool, conn, openPools, libRun, treeBefore, rowsBefore>>

\* Mutant: the configuration is written without the installation.
AfterAcquireNoInstall == "alter_preload"

\* After the connection is detached main installs, then configures.
AfterAcquire == "download"

\* let mut conn: PgConnection = pool.acquire().await?.detach()
Acquire ==
    /\ pc = "acquire"
    /\ \E err \in SqlResults(pool, TRUE) :
        /\ Step("acquire", err, pool, AfterAcquire)
        /\ conn' = IF err = "none" THEN ConnHandle(pool.id, pool.gen) ELSE conn
    /\ UNCHANGED <<runs, archive, scratch, scratchDir, pending, tree, db, server,
                   pool, openPools, installed, libRun, treeBefore, rowsBefore>>

\* reqwest::get(url).await?  and  response.bytes().await?
Download ==
    /\ pc = "download"
    /\ \E err \in Results(TRUE, "none") :
        Step("download", err, NoHandle, "extract")
    /\ treeBefore' = tree
    /\ UNCHANGED <<runs, archive, scratch, scratchDir, pending, tree, db, server,
                   pool, conn, openPools, installed, libRun, rowsBefore>>

\* zip_extract::extract(Cursor::new(bytes), &target, false)?  The entries
\* are written into "vectors", beside whatever the directory already
\* holds; a failed extraction has written none of them or all of them.
Extract ==
    /\ pc = "extract"
    /\ \E err \in Results(TRUE, "none") :
        /\ Step("extract", err, NoHandle, "copy_lib")
        /\ \E done \in (IF err = "none" THEN {TRUE} ELSE {FALSE, TRUE}) :
            /\ scratch' = IF done THEN scratch \cup archive ELSE scratch
            /\ scratchDir' = (scratchDir \/ done)
    /\ UNCHANGED <<runs, archive, pending, tree, db, server,
                   pool, conn, openPools, installed, libRun, treeBefore, rowsBefore>>

\* std::fs::copy("vectors/vectors.so", "<pkglibdir>/vectors.so")?
CopyLibrary ==
    /\ pc = "copy_lib"
    /\ \E err \in CopyResults("vectors.so") :
        /\ Step("copy_lib", err, NoHandle, "read_dir")
        /\ tree' \in CopyInto(tree, "lib", "vectors.so", err)
        /\ libRun' = IF err = "none" /\ libRun = 0 THEN runs ELSE libRun
    /\ UNCHANGED <<runs, archive, scratch, scratchDir, pending, db, server,
                   pool, conn, openPools, installed, treeBefore, rowsBefore>>

\* The loop over the entries goes on while there are entries left.
LoopNext(left) == IF left = {} THEN "copy_control" ELSE "copy_schema"

\* for entry in std::fs::read_dir("vectors")? : the entries directly in
\* the directory, in the order the file system yields them.
ReadDir ==
    /\ pc = "read_dir"
    /\ \E err \in Results(scratchDir, "NotFound") :
        /\ pending' = IF err = "none" THEN {e \in scratch : e.dir = ""} ELSE pending
        /\ Step("read_dir", err, NoHandle, LoopNext(pending'))
    /\ UNCHANGED <<runs, archive, scratch, scratchDir, tree, db, server,
                   pool, conn, openPools, installed, libRun, treeBefore, rowsBefore>>

\* Mutant: every regular file is copied, whatever its name.
IsSchemaFileNoPrefix(e) == e.kind = "file"

\* path.is_file() && file_name.starts_with("vectors--")
IsSchemaFile(e) == e.kind = "file" /\ StartsWithPrefix(e.name)

\* One turn of the loop: `entry?`, then the copy of a schema file; any
\* other entry is passed over.
CopySchema ==
    /\ pc = "copy_schema"
    /\ \E e \in pending :
        /\ pending' = pending \ {e}
        /\ \/ /\ IsSchemaFile(e)
              /\ \E err \in CopyResults(e.name) :
                  /\ Step("copy_schema", err, NoHandle, LoopNext(pending'))
                  /\ tree' \in CopyInto(tree, "ext", e.name, err)
           \/ /\ ~IsSchemaFile(e)
              /\ \E err \in Results(TRUE, "none") :
                  Step("skip_entry", err, NoHandle, LoopNext(pending'))
              /\ tree' = tree
    /\ UNCHANGED <<runs, archive, scratch, scratchDir, db, server,
                   pool, conn, openPools, installed, libRun, treeBefore, rowsBefore>>

\* std::fs::copy("vectors/vectors.control", "<extension_dir>/vectors.control")?
CopyControl ==
    /\ pc = "copy_control"
    /\ \E err \in CopyResults("vectors.control") :
        /\ Step("copy_control", err, NoHandle, "rm_scratch")
        /\ tree' \in CopyInto(tree, "ext", "vectors.control", err)
    /\ UNCHANGED <<runs, archive, scratch, scratchDir, pending, db, server,
                   pool, conn, openPools, installed, libRun, treeBefore, rowsBefore>>

\* std::fs::remove_dir_all(target)?  A failed removal has removed nothing,
\* or the entries and not the directory.
RemoveScratch ==
    /\ pc = "rm_scratch"
    /\ \E err \in Results(scratchDir, "NotFound") :
        /\ Step("rm_scratch", err, NoHandle, "alter_preload")
        /\ \/ err = "none" /\ scratch' = {} /\ scratchDir' = FALSE
           \/ err # "none" /\ scratch' \in {scratch, {}} /\ scratchDir' = scratchDir
    /\ UNCHANGED <<runs, archive, pending, tree, db, server,
                   pool, conn, openPools, installed, libRun, treeBefore, rowsBefore>>

\* Mutant: the extension is enabled without a restart.
AfterConfigureNoRestart == "enable"

\* configure_pg_vectors_extension returns to main, which restarts the server.
AfterConfigure == "stop"

\* conn.execute("ALTER SYSTEM SET shared_preload_libraries = \"vectors.so\"")
AlterPreload ==
    /\ pc = "alter_preload"
    /\ \E err \in SqlResults(conn, TRUE) :
        /\ Step("alter_preload", err, conn, "alter_search")
        /\ db' \in Effect(err, db, [db EXCEPT !.preload = TRUE])
    /\ UNCHANGED <<runs, archive, scratch, scratchDir, pending, tree, server,
                   pool, conn, openPools, installed, libRun, treeBefore, rowsBefore>>

\* conn.execute("ALTER SYSTEM SET search_path = \"$user\", public, vectors")
AlterSearchPath ==
    /\ pc = "alter_search"
    /\ \E err \in SqlResults(conn, TRUE) :
        /\ Step("alter_search", err, conn, AfterConfigure)
        /\ db' \in Effect(err, db, [db EXCEPT !.path = TRUE])
    /\ UNCHANGED <<runs, archive, scratch, scratchDir, pending, tree, server,
                   pool, conn, openPools, installed, libRun, treeBefore, rowsBefore>>

\* postgresql.stop().await?
Stop ==
    /\ pc = "stop"
    /\ \E err \in Results(server.up, "ShutdownError") :
        /\ Step("stop", err, NoHandle, "start2")
        /\ server' = IF err = "none" THEN [server EXCEPT !.up = FALSE] ELSE server
    /\ UNCHANGED <<runs, archive, scratch, scratchDir, pending, tree, db,
                   pool, conn, openPools, installed, libRun, treeBefore, rowsBefore>>

\* postgresql.start().await?  (line 68)
Restart ==
    /\ pc = "start2"
    /\ \E err \in Results(CanStart /\ ~server.up, "StartupError") :
        /\ Step("start2", err, NoHandle, "close")
        /\ server' = IF err = "none" THEN Started ELSE server
    /\ UNCHANGED <<runs, archive, scratch, scratchDir, pending, tree, db,
                   pool, conn, openPools, installed, libRun, treeBefore, rowsBefore>>

\* Mutant: the old pool is left open.
ClosedNot(open, p) == open

\* pool.close(): the pool is closed when the call returns.
Closed(open, p) == open \ {p.id}

\* pool.close().await: it returns no error.
ClosePool ==
    /\ pc = "close"
    /\ Step("close", "none", pool, "connect2")
    /\ openPools' = Closed(openPools, pool)
    /\ UNCHANGED <<runs, archive, scratch, scratchDir, pending, tree, db, server,
                   pool, conn, installed, libRun, treeBefore, rowsBefore>>

\* pool = PgPool::connect(database_url.as_str()).await?  (line 70)
Reconnect ==
    /\ pc = "connect2"
    /\ \E err \in Results(server.up /\ db.exists, "ConnectionError") :
        /\ Step("connect2", err, NoHandle, "enable")
        /\ pool' = IF err = "none" THEN Connected(2) ELSE pool
        /\ openPools' = IF err = "none" THEN openPools \cup {2} ELSE openPools
    /\ UNCHANGED <<runs, archive, scratch, scratchDir, pending, tree, db, server,
                   conn, installed, libRun, treeBefore, rowsBefore>>

\* CREATE EXTENSION needs the control file and the script of the default
\* version in the extension directory and the library preloaded by the
\* running instance, and fails when the extension is already there.
CanCreateExtension ==
    /\ HasFull(tree, "ext", "vectors.control")
    /\ HasFull(tree, "ext", "vectors--0.3.0.sql")
    /\ server.preload
    /\ ~db.ext

\* sqlx::query("CREATE EXTENSION vectors;").execute(pool).await?
Enable ==
    /\ pc = "enable"
    /\ \E err \in SqlResults(pool, CanCreateExtension) :
        /\ Step("enable", err, pool, "create_table")
        /\ db' \in Effect(err, db, [db EXCEPT !.ext = TRUE])
    /\ UNCHANGED <<runs, archive, scratch, scratchDir, pending, tree, server,
                   pool, conn, openPools, installed, libRun, treeBefore, rowsBefore>>

----------------------------------------------------------------------------
(* main, lines 76-90: the demonstration queries *)

\* CREATE TABLE IF NOT EXISTS items (id bigserial PRIMARY KEY,
\* embedding vector(3) NOT NULL): nothing is done when the table exists.
CreatedTable(d) == [d EXCEPT !.table = TRUE]

create_table_items ==
    /\ pc = "create_table"
    /\ \E err \in SqlResults(pool, db.table \/ TypeVisible) :
        /\ Step("create_table", err, pool, "insert_text")
        /\ db' \in Effect(err, db, CreatedTable(db))
    /\ UNCHANGED <<runs, archive, scratch, scratchDir, pending, tree, server,
                   pool, conn, openPools, installed, libRun, treeBefore, rowsBefore>>

\* Mutant: a statement inserts one row.
InsertedOne(d) == [d EXCEPT !.a = @ + 1]

\* INSERT INTO items (embedding) VALUES (v1), (v2): one row with
\* [1,2,3] (counted in a) and one with [4,5,6] (counted in b).
Inserted(d) == [d EXCEPT !.a = @ + 1, !.b = @ + 1]

\* insert_vector_data: the statement with the literals '[1,2,3]', '[4,5,6]',
\* then the statement with ARRAY[1, 2, 3]::real[], ARRAY[4, 5, 6]::real[].
insert_vector_data ==
    /\ pc \in {"insert_text", "insert_array"}
    /\ \E err \in SqlResults(pool, db.table) :
        /\ Step(pc, err, pool, IF pc = "insert_text" THEN "insert_array" ELSE "ops1")
        /\ db' \in Effect(err, db, Inserted(db))
    /\ UNCHANGED <<runs, archive, scratch, scratchDir, pending, tree, server,
                   pool, conn, openPools, installed, libRun, treeBefore, rowsBefore>>

\* for query in queries { sqlx::query_as(query).fetch_one(pool).await? }
OpsNext(at) ==
    IF at = "ops1" THEN "ops2" ELSE IF at = "ops2" THEN "ops3" ELSE "search"

demonstrate_vector_operations ==
    /\ pc \in {"ops1", "ops2", "ops3"}
    /\ \E err \in SqlResults(pool, TypeVisible) :
        Step(pc, err, pool, OpsNext(pc))
    /\ UNCHANGED <<runs, archive, scratch, scratchDir, pending, tree, db, server,
                   pool, conn, openPools, installed, libRun, treeBefore, rowsBefore>>

\* SELECT id, embedding::text FROM items ORDER BY embedding <-> '[3,2,1]' LIMIT 5
search_similar_vectors ==
    /\ pc = "search"
    /\ \E err \in SqlResults(pool, db.table /\ TypeVisible) :
        Step("search", err, pool, "done")
    /\ UNCHANGED <<runs, archive, scratch, scratchDir, pending, tree, db, server,
                   pool, conn, openPools, installed, libRun, treeBefore, rowsBefore>>

----------------------------------------------------------------------------

Next ==
    \/ NewRun
    \/ Setup
    \/ Start
    \/ DatabaseExists
    \/ CreateDatabase
    \/ Connect
    \/ Check
    \/ Acquire
    \/ Download
    \/ Extract
    \/ CopyLibrary
    \/ ReadDir
    \/ CopySchema
    \/ CopyControl
    \/ RemoveScratch
    \/ AlterPreload
    \/ AlterSearchPath
    \/ Stop
    \/ Restart
    \/ ClosePool
    \/ Reconnect
    \/ Enable
    \/ create_table_items
    \/ insert_vector_data
    \/ demonstrate_vector_operations
    \/ search_similar_vectors

Spec == Init /\ [][Next]_vars

----------------------------------------------------------------------------
(* What the run has done, read off its trace *)

Steps == DOMAIN trace
Ok(i) == trace[i].err = "none"
Did(step) == \E i \in Steps : trace[i].step = step /\ Ok(i)
Last == trace[Len(trace)]
FailedAt(step) == pc = "failed" /\ Len(trace) > 0 /\ Last.step = step

\* The place of each step in main.
Rank(step) ==
    CASE step = "setup" -> 1
      [] step = "start" -> 2
      [] step = "db_exists" -> 3
      [] step = "create_db" -> 4
      [] step = "connect" -> 5
      [] step = "check" -> 6
      [] step = "acquire" -> 7
      [] step = "download" -> 8
      [] step = "extract" -> 9
      [] step = "copy_lib" -> 10
      [] step = "read_dir" -> 11
      [] step \in {"copy_schema", "skip_entry"} -> 12
      [] step = "copy_control" -> 13
      [] step = "rm_scratch" -> 14
      [] step = "alter_preload" -> 15
      [] step = "alter_search" -> 16
      [] step = "stop" -> 17
      [] step = "start2" -> 18
      [] step = "close" -> 19
      [] step = "connect2" -> 20
      [] step = "enable" -> 21
      [] step = "create_table" -> 22
      [] step = "insert_text" -> 23
      [] step = "insert_array" -> 24
      [] step = "ops1" -> 25
      [] step = "ops2" -> 26
      [] step = "ops3" -> 27
      [] step = "search" -> 28

\* The installation branch of main runs from the acquire to the activation;
\* the loop of install is the one over the directory entries.
FirstBranchRank == Rank("acquire")
LastBranchRank == Rank("enable")
LoopRank == Rank("copy_schema")
InBranch(step) == Rank(step) >= FirstBranchRank /\ Rank(step) <= LastBranchRank

\* The steps of install_pg_vectors_extension.
InstallSteps ==
    { "download", "extract", "copy_lib", "read_dir", "copy_schema", "skip_entry",
      "copy_control", "rm_scratch" }

\* install_pg_vectors_extension returned Ok(()) in this run.
InstallReturned == Did("rm_scratch")

\* The extension's files as the installation tree holds them after a complete copy.
LibraryFile == TreeFile("lib", "vectors.so", "full")
ControlFile == TreeFile("ext", "vectors.control", "full")
SchemaFiles(entries) ==
    { TreeFile("ext", e.name, "full") :
        e \in { x \in entries : x.kind = "file" /\ StartsWithPrefix(x.name) } }
TopLevel(entries) == { e \in entries : e.dir = "" }

----------------------------------------------------------------------------
(* The claims *)

\* C1: CREATE EXTENSION vectors is issued only while the server runs, and
\* only on an instance started after both ALTER SYSTEM statements succeeded:
\* a successful stop and a successful start lie between them and it.
C1_ActivationAfterRestart ==
    \A i \in Steps :
        trace[i].step = "enable" =>
            /\ trace[i].up
            /\ \E p, q, s, t \in Steps :
                /\ p < q /\ q < s /\ s < t /\ t < i
                /\ trace[p].step = "alter_preload" /\ Ok(p)
                /\ trace[q].step = "alter_search" /\ Ok(q)
                /\ trace[s].step = "stop" /\ Ok(s)
                /\ trace[t].step = "start2" /\ Ok(t)
                /\ trace[i].gen > trace[q].gen

C1_Witness == Did("enable") /\ db.ext

\* C2: at most one pool is open at any time, the old pool is closed before
\* the new one is created, and every statement issued after the restart
\* runs on the pool created after it, never on a handle opened before the stop.
C2_OnePoolAndFreshConnections ==
    /\ Cardinality(openPools) <= 1
    /\ \A i \in Steps :
        trace[i].step = "connect2" =>
            \E j \in Steps : j < i /\ trace[j].step = "close"
    /\ \A r, i \in Steps :
        (trace[r].step = "start2" /\ Ok(r) /\ r < i
           /\ trace[i].via # "none" /\ trace[i].step # "close") =>
            /\ trace[i].via = "pool"
            /\ trace[i].id = 2
            /\ trace[i].hgen = trace[r].gen + 1
            /\ trace[i].hgen = trace[i].gen

C2_Witness == Did("start2") /\ Did("search") /\ openPools = {2}

\* C3: a failed step is the last step of its run: nothing is executed after
\* it, it is not executed again (the turns of the loop over the directory
\* entries are turns for different entries), the run ends in the error
\* outcome; a run that ends in success has no failed step.
C3_FirstFailureEndsRun ==
    /\ \A i \in Steps : i < Len(trace) => Ok(i)
    /\ \A i, j \in Steps :
        (i # j /\ trace[i].step = trace[j].step /\ Rank(trace[i].step) # LoopRank)
            => (Ok(i) /\ Ok(j))
    /\ pc = "done" => \A i \in Steps : Ok(i)
    /\ pc = "failed" <=> (Len(trace) > 0 /\ Last.err # "none")

C3_Witness == FailedAt("stop")

\* C4: the steps of a run occur in the order of main and never twice (the
\* loop over the directory entries takes one turn per entry); the steps
\* from the installation to the activation occur only when the check said
\* "not installed", and then all of them before the first demo step.
C4_LinearSinglePass ==
    /\ \A i, j \in Steps :
        i < j =>
            \/ Rank(trace[i].step) < Rank(trace[j].step)
            \/ Rank(trace[i].step) = LoopRank /\ Rank(trace[j].step) = LoopRank
    /\ Cardinality({ i \in Steps : Rank(trace[i].step) = LoopRank })
          <= Cardinality(TopLevel(archive))
    /\ \A i \in Steps : InBranch(trace[i].step) => installed = "no"
    /\ \A i \in Steps :
        (trace[i].step = "create_table" /\ installed = "no") =>
            \A st \in {"acquire", "download", "extract", "copy_lib", "read_dir",
                       "copy_control", "rm_scratch", "alter_preload",
                       "alter_search", "stop", "start2", "close", "connect2",
                       "enable"} : Did(st)
    /\ \A i \in Steps :
        trace[i].step = "create_table" => (Did("start") /\ Did("check"))

C4_Witness == pc = "done" /\ installed = "yes" /\ db.ext /\ rowsBefore.a > 0

\* C5: the check says "installed" exactly when lib/vectors.so exists,
\* whatever else is in place; a run started after the run that copied the
\* library reports "installed" and executes no step from the installation
\* to the activation.
C5_InstalledIffLibraryFile ==
    /\ installed = "yes" => Has(tree, "lib", "vectors.so")
    /\ (installed = "no" /\ ~\E i \in Steps : trace[i].step = "copy_lib")
          => ~Has(tree, "lib", "vectors.so")
    /\ (libRun > 0 /\ runs > libRun) =>
          /\ installed \in {"unknown", "yes"}
          /\ \A i \in Steps : ~InBranch(trace[i].step)

C5_Witness ==
    /\ libRun > 0 /\ runs > libRun
    /\ installed = "yes"
    /\ ~Has(tree, "ext", "vectors.control")
    /\ ~db.preload /\ ~db.ext
    /\ FailedAt("create_table")

Expected == {LibraryFile, ControlFile} \cup SchemaFiles(TopLevel(archive))
Present == { f \in Expected : Has(tree, f.dir, f.name) }
InstallFailed == pc = "failed" /\ Len(trace) > 0 /\ Last.step \in InstallSteps

\* C7, as claimed: any failure of install leaves some but not all of the
\* extension's files in the tree, and removes none it has copied.
C7_AnyFailureLeavesPartialCopy ==
    InstallFailed =>
        /\ Present # {}
        /\ Present # Expected
        /\ treeBefore \subseteq tree

\* C7, amended: a failed install rolls nothing back.  After a failed
\* download or extraction the tree is as it was; after a failed library
\* copy only the library can be there, incomplete; a later failure leaves
\* the library and every file copied before the failing step; a failed
\* deletion of the scratch directory leaves all of the files.
C7_NoRollback ==
    /\ (\E i \in Steps : trace[i].step \in InstallSteps) => treeBefore \subseteq tree
    /\ (FailedAt("download") \/ FailedAt("extract")) => tree = treeBefore
    /\ FailedAt("copy_lib") => Without(tree, "lib", "vectors.so") = treeBefore
    /\ (InstallFailed /\ Rank(Last.step) > Rank("copy_lib")) => LibraryFile \in tree
    /\ FailedAt("copy_control") =>
          (SchemaFiles(TopLevel(archive)) \cup {LibraryFile}) \subseteq tree
    /\ FailedAt("rm_scratch") => Expected \subseteq tree

C7_Witness ==
    /\ FailedAt("copy_control")
    /\ LibraryFile \in tree
    /\ SchemaFiles(TopLevel(archive)) \subseteq tree
    /\ ~Has(tree, "ext", "vectors.control")

\* C8, as claimed: a successful run adds exactly two rows to items.
C8_TwoRowsPerRun ==
    pc = "done" => db.a + db.b = rowsBefore.a + rowsBefore.b + 2

\* C8, amended: a successful run adds exactly four rows, [1,2,3] and
\* [4,5,6] once by each of the two statements, so a first run that succeeds
\* on a fresh database leaves four; CREATE TABLE IF NOT EXISTS changes no
\* row and is not refused when the table exists.
C8_FourRowsPerRun ==
    /\ pc = "done" => (db.a = rowsBefore.a + 2 /\ db.b = rowsBefore.b + 2)
    /\ (pc = "done" /\ runs = 1) => db.a + db.b = 4
    /\ pc = "insert_text" => (db.table /\ db.a = rowsBefore.a /\ db.b = rowsBefore.b)
    /\ pc = "insert_array" => (db.a = rowsBefore.a + 1 /\ db.b = rowsBefore.b + 1)
    /\ (FailedAt("create_table") /\ Last.err = "SqlError") => ~db.table

C8_Witness == pc = "done" /\ rowsBefore.a > 0 /\ db.a = rowsBefore.a + 2

\* C9: create_database is called only when the check said the database
\* does not exist, so it never fails with AlreadyExists; the database
\* exists once it is created, and a pool is opened only when it exists.
C9_CreateOnlyWhenAbsent ==
    /\ pc = "create_db" => ~db.exists
    /\ \A i \in Steps : trace[i].step = "create_db" => trace[i].err # "AlreadyExists"
    /\ Did("create_db") => db.exists
    /\ (Did("connect") \/ Did("connect2")) => db.exists
    /\ openPools # {} => db.exists

C9_Witness == Did("create_db") /\ db.exists /\ openPools = {1}

\* C10: whenever the persisted configuration preloads vectors.so, the file
\* lib/vectors.so exists: the configuration is written only after install
\* returned success, install copies the library before any other file, and
\* no start of the server fails for a library it cannot load.
C10_PreloadImpliesLibrary ==
    /\ db.preload => Has(tree, "lib", "vectors.so")
    /\ \A i \in Steps :
        trace[i].step = "alter_preload" =>
            \E k, j \in Steps :
                /\ k < j /\ j < i
                /\ trace[k].step = "copy_lib" /\ Ok(k)
                /\ trace[j].step = "rm_scratch" /\ Ok(j)
    /\ \A i, j \in Steps :
        (trace[i].step = "copy_lib" /\ trace[j].step \in {"copy_schema", "copy_control"})
            => i < j
    /\ \A i \in Steps :
        trace[i].step \in {"start", "start2"} => trace[i].err # "StartupError"

C10_Witness ==
    /\ runs > 1
    /\ Did("start")
    /\ server.up /\ server.preload
    /\ Has(tree, "lib", "vectors.so")
    /\ ~db.ext

====
